---------------------------- MODULE Spec2Model ----------------------------
(***************************************************************************)
(* A model of pvlib/irradiance.py: the sky-diffuse transposition models,   *)
(* the Perez coefficient lookup and the plane-of-array composition.        *)
(*                                                                         *)
(* Numbers.  The program computes in IEEE doubles.  The model computes in  *)
(* decimal floating point: a number is [m |-> mantissa, e |-> exponent]    *)
(* and stands for m * 10^e.  Results of arithmetic are cut to four         *)
(* significant digits (toward zero), so 1e-8 and 1e10 are both numbers of  *)
(* the model, and x/0, 0/0 give inf and nan as numpy gives them.           *)
(*                                                                         *)
(* The arithmetic is written as functions over Numbers (AddF, MulF, ...)   *)
(* with operators (Add, Mul, ...) that apply them: a function is applied   *)
(* to the values of its arguments, so each operand is computed once.       *)
(***************************************************************************)
EXTENDS Integers, Sequences, FiniteSets, TLC

(***************************************************************************)
(* Decimal floating point                                                  *)
(***************************************************************************)
Abs(x) == IF x < 0 THEN -x ELSE x

Sgn(x) == IF x < 0 THEN -1 ELSE IF x > 0 THEN 1 ELSE 0

Min(x, y) == IF x <= y THEN x ELSE y

\* Mantissas of results stay below this (four significant digits).
MantissaLimit == 10^4

\* The exponent that marks inf (m = 1), -inf (m = -1) and nan (m = 0).
SpecialExp == 10^3

NaN == [m |-> 0, e |-> SpecialExp]

Inf(s) == [m |-> s, e |-> SpecialExp]

IsNaN(a) == a.e = SpecialExp /\ a.m = 0

IsInf(a) == a.e = SpecialExp /\ a.m # 0

IsFinite(a) == a.e # SpecialExp

RECURSIVE Strip(_, _)
\* The canonical form of m * 10^e: no trailing zero in the mantissa.
Strip(m, e) ==
    IF m = 0 THEN [m |-> 0, e |-> 0]
    ELSE IF m % 10 = 0 THEN Strip(m \div 10, e + 1)
    ELSE [m |-> m, e |-> e]

\* A literal of the source: exactly m * 10^e.
Dec(m, e) == Strip(m, e)

Num(n) == Strip(n, 0)

Zero == Num(0)

One == Num(1)

RECURSIVE Round(_, _)
\* The result of an operation: m * 10^e cut to four significant digits.
Round(m, e) ==
    IF Abs(m) >= MantissaLimit
    THEN Round(Sgn(m) * (Abs(m) \div 10), e + 1)
    ELSE Strip(m, e)

Numbers == [m : Int, e : Int]

AddFinite(a, b) ==
    LET hi == IF a.e >= b.e THEN a ELSE b
        lo == IF a.e >= b.e THEN b ELSE a
        k  == hi.e - lo.e
    IN  IF k <= 4 THEN Round(hi.m * 10^k + lo.m, lo.e)
        ELSE IF k >= 10 THEN Round(hi.m, hi.e)
        ELSE Round(hi.m * 10^4 + Sgn(lo.m) * (Abs(lo.m) \div 10^(k - 4)), hi.e - 4)

AddF[a \in Numbers, b \in Numbers] ==
    IF IsNaN(a) \/ IsNaN(b) THEN NaN
    ELSE IF IsInf(a) THEN (IF IsInf(b) /\ a.m # b.m THEN NaN ELSE a)
    ELSE IF IsInf(b) THEN b
    ELSE IF a.m = 0 THEN Round(b.m, b.e)
    ELSE IF b.m = 0 THEN Round(a.m, a.e)
    ELSE AddFinite(a, b)

Add(a, b) == AddF[a, b]

NegF[a \in Numbers] == [m |-> -a.m, e |-> a.e]

Neg(a) == NegF[a]

Sub(a, b) == Add(a, Neg(b))

MulF[a \in Numbers, b \in Numbers] ==
    IF IsNaN(a) \/ IsNaN(b) THEN NaN
    ELSE IF IsInf(a) \/ IsInf(b)
         THEN (IF a.m = 0 \/ b.m = 0 THEN NaN ELSE Inf(Sgn(a.m) * Sgn(b.m)))
    ELSE Round(a.m * b.m, a.e + b.e)

Mul(a, b) == MulF[a, b]

\* How far a mantissa below 10^5 is scaled up before it is divided.
Scale(m) ==
    IF m < 10 THEN 8 ELSE IF m < 100 THEN 7 ELSE IF m < 1000 THEN 6
    ELSE IF m < 10000 THEN 5 ELSE 4

DivF[a \in Numbers, b \in Numbers] ==
    IF IsNaN(a) \/ IsNaN(b) THEN NaN
    ELSE IF IsInf(a)
         THEN (IF IsInf(b) THEN NaN
               ELSE Inf(a.m * (IF b.m < 0 THEN -1 ELSE 1)))
    ELSE IF IsInf(b) THEN Zero
    ELSE IF b.m = 0 THEN (IF a.m = 0 THEN NaN ELSE Inf(Sgn(a.m)))
    ELSE IF a.m = 0 THEN Zero
    ELSE LET s == Scale(Abs(a.m))
         IN  Round(Sgn(a.m) * Sgn(b.m) * ((Abs(a.m) * 10^s) \div Abs(b.m)),
                   a.e - s - b.e)

Div(a, b) == DivF[a, b]

\* a < b as numpy compares: false whenever either side is nan.
LtF[a \in Numbers, b \in Numbers] ==
    IF IsNaN(a) \/ IsNaN(b) THEN FALSE
    ELSE IF IsInf(a) THEN a.m < 0 /\ b # a
    ELSE IF IsInf(b) THEN b.m > 0
    ELSE Sub(a, b).m < 0

Lt(a, b) == LtF[a, b]

EqNumF[a \in Numbers, b \in Numbers] ==
    IF IsNaN(a) \/ IsNaN(b) THEN FALSE
    ELSE IF IsInf(a) \/ IsInf(b) THEN a = b
    ELSE Sub(a, b).m = 0

EqNum(a, b) == EqNumF[a, b]

LeF[a \in Numbers, b \in Numbers] == LtF[a, b] \/ EqNumF[a, b]

Le(a, b) == LeF[a, b]

Gt(a, b) == Lt(b, a)

Ge(a, b) == Le(b, a)

CubeF[a \in Numbers] == MulF[MulF[a, a], a]

Cube(a) == CubeF[a]

SquareF[a \in Numbers] == MulF[a, a]

Square(a) == SquareF[a]

RECURSIVE ISqrtIter(_, _)
\* Newton's iteration for the integer square root of n, from x above it.
ISqrtIter(n, x) ==
    LET y == (x + n \div x) \div 2
    IN  IF y >= x THEN x ELSE ISqrtIter(n, y)

SqrtF[a \in Numbers] ==
    IF IsNaN(a) THEN NaN
    ELSE IF IsInf(a) THEN (IF a.m > 0 THEN a ELSE NaN)
    ELSE IF a.m < 0 THEN NaN
    ELSE IF a.m = 0 THEN Zero
    ELSE LET s0 == Scale(a.m)
             s  == IF (a.e - s0) % 2 = 0 THEN s0 ELSE s0 - 1
         IN  Round(ISqrtIter(a.m * 10^s, 40000), (a.e - s) \div 2)

Sqrt(a) == SqrtF[a]


(***************************************************************************)
(* Trigonometry in degrees (pvl_tools.cosd, pvl_tools.sind and             *)
(* np.cos(np.radians(x))), tabulated to four digits for the angles the     *)
(* model uses.  cos(90 deg) and sin(180 deg) are the small non-zero        *)
(* numbers that np.radians and np.cos / np.sin give.                       *)
(***************************************************************************)
ToInt[a \in Numbers] == a.m * 10^a.e

CosTable ==
    (0 :> One) @@ (45 :> Dec(7071, -4)) @@ (60 :> Dec(5, -1)) @@
    (85 :> Dec(8716, -5)) @@ (90 :> Dec(6123, -20)) @@
    (120 :> Dec(-5, -1)) @@ (180 :> Num(-1))

SinTable ==
    (0 :> Zero) @@ (45 :> Dec(7071, -4)) @@ (60 :> Dec(866, -3)) @@
    (85 :> Dec(9962, -4)) @@ (90 :> One) @@
    (120 :> Dec(866, -3)) @@ (180 :> Dec(1225, -19))

cosd(x) == CosTable[Abs(ToInt[x])]

sindF[x \in Numbers] ==
    IF x.m < 0 THEN NegF[SinTable[Abs(ToInt[x])]] ELSE SinTable[ToInt[x]]

sind(x) == sindF[x]

\* np.pi
PI == Dec(3142, -3)


(***************************************************************************)
(* Series.  A pandas series is a function from the index of its elements   *)
(* to their values.  Series(s) is s with every element computed, as a      *)
(* pandas statement computes the whole series when it runs.                *)
(***************************************************************************)
Series(s) == s @@ <<>>

\* s[mask] = v, for a series v on the same index
SetWhere(s, mask, v) ==
    Series([i \in DOMAIN s |-> IF mask[i] THEN v[i] ELSE s[i]])

\* s[mask] = c, for a scalar c
SetWhereScalar(s, mask, c) ==
    Series([i \in DOMAIN s |-> IF mask[i] THEN c ELSE s[i]])

\* s[mask]: the elements where mask holds, under their own index
Select(s, mask) == Series([i \in {j \in DOMAIN s : mask[j]} |-> s[i]])

(***************************************************************************)
(* GetPerezCoefficients                                                    *)
(***************************************************************************)
\* The embedded tables, in thousandths (-0.0080 is -8).
coeffdict ==
    [ allsitescomposite1990 |->
        << <<-8, 588, -62, -60, 72, -22>>,
           <<130, 683, -151, -19, 66, -29>>,
           <<330, 487, -221, 55, -64, -26>>,
           <<568, 187, -295, 109, -152, -14>>,
           <<873, -392, -362, 226, -462, 1>>,
           <<1132, -1237, -412, 288, -823, 56>>,
           <<1060, -1600, -359, 264, -1127, 131>>,
           <<678, -327, -250, 156, -1377, 251>> >>,
      allsitescomposite1988 |->
        << <<-18, 705, -71, 0, -58, 102, -26>>,
           <<191, 645, -171, 12, 9, -27>>,
           <<440, 378, -256, 87, -104, -25>>,
           <<756, -121, -346, 179, -321, -8>>,
           <<996, -645, -405, 260, -590, 17>>,
           <<1098, -1290, -393, 269, -832, 75>>,
           <<973, -1135, -378, 124, -258, 149>>,
           <<689, -412, -273, 199, -1675, 237>> >>,
      sandiacomposite1988 |->
        << <<-196, 1084, -6, -114, 180, -19>>,
           <<236, 519, -180, -11, 20, -38>>,
           <<454, 321, -255, 72, -98, -46>>,
           <<866, -381, -375, 203, -403, -49>>,
           <<1026, -711, -426, 273, -602, -61>>,
           <<978, -986, -350, 280, -915, -24>>,
           <<748, -913, -236, 173, -1045, 65>>,
           <<318, -757, 103, 62, -1698, 236>> >>,
      usacomposite1988 |->
        << <<-34, 671, -59, -59, 86, -28>>,
           <<255, 474, -191, 18, -14, -33>>,
           <<427, 349, -245, 93, -121, -39>>,
           <<756, -213, -328, 175, -304, -27>>,
           <<1020, -857, -385, 280, -638, -19>>,
           <<1050, -1344, -348, 280, -893, 37>>,
           <<974, -1507, -370, 154, -568, 109>>,
           <<744, -1817, -256, 246, -2618, 230>> >>,
      france1988 |->
        << <<13, 764, -100, -58, 127, -23>>,
           <<95, 920, -152, 0, 51, -20>>,
           <<464, 421, -280, 64, -51, -2>>,
           <<759, -9, -373, 201, -382, 10>>,
           <<976, -400, -436, 271, -638, 51>>,
           <<1176, -1254, -462, 295, -975, 129>>,
           <<1106, -1563, -398, 301, -1442, 212>>,
           <<934, -1501, -271, 420, -2917, 249>> >>,
      phoenix1988 |->
        << <<-3, 728, -97, -75, 142, -43>>,
           <<279, 354, -176, 30, -55, -54>>,
           <<469, 168, -246, 48, -42, -57>>,
           <<856, -519, -340, 176, -380, -31>>,
           <<941, -625, -391, 188, -360, -49>>,
           <<1056, -1134, -410, 281, -794, -65>>,
           <<901, -2139, -269, 118, -665, 46>>,
           <<107, 481, 143, -111, -137, 234>> >>,
      elmonte1988 |->
        << <<27, 701, -119, -58, 107, -60>>,
           <<181, 671, -178, -79, 194, -35>>,
           <<476, 407, -288, 54, -32, -55>>,
           <<875, -218, -403, 187, -309, -61>>,
           <<1166, -1014, -454, 211, -410, -44>>,
           <<1143, -2064, -291, 97, -319, 53>>,
           <<1094, -2632, -259, 29, -422, 147>>,
           <<155, 1723, 163, -131, -19, 277>> >>,
      osage1988 |->
        << <<-353, 1474, 57, -175, 312, 9>>,
           <<363, 218, -212, 19, -34, -59>>,
           <<-31, 1262, -84, -82, 231, -17>>,
           <<691, 39, -295, 91, -131, -35>>,
           <<1182, -1350, -321, 408, -985, -88>>,
           <<764, 19, -203, 217, -294, -103>>,
           <<219, 1412, 244, 471, -2988, 34>>,
           <<3578, 22231, -10745, 2426, 4892, -5687>> >>,
      albuquerque1988 |->
        << <<34, 501, -94, -63, 106, -44>>,
           <<229, 467, -156, -5, -19, -23>>,
           <<486, 241, -253, 53, -64, -22>>,
           <<874, -393, -397, 181, -327, -37>>,
           <<1193, -1296, -501, 281, -656, -45>>,
           <<1056, -1758, -374, 226, -759, 34>>,
           <<901, -4783, -109, 63, -970, 196>>,
           <<851, -7055, -53, 60, -2833, 330>> >>,
      capecanaveral1988 |->
        << <<75, 533, -124, -67, 42, -20>>,
           <<295, 497, -218, -8, 3, -29>>,
           <<514, 81, -261, 75, -160, -29>>,
           <<747, -329, -325, 181, -416, -30>>,
           <<901, -883, -297, 178, -489, 8>>,
           <<591, -44, -116, 235, -999, 98>>,
           <<537, -2402, 320, 169, -1971, 310>>,
           <<-805, 4546, 1072, -258, -950, 753>> >>,
      albany1988 |->
        << <<12, 554, -76, -52, 84, -29>>,
           <<267, 437, -194, 16, 22, -36>>,
           <<420, 336, -237, 74, -52, -32>>,
           <<638, -1, -281, 138, -189, -12>>,
           <<1019, -1027, -342, 271, -628, 14>>,
           <<1149, -1940, -331, 322, -1097, 80>>,
           <<1434, -3994, -492, 453, -2376, 117>>,
           <<1007, -2292, -482, 390, -3368, 229>> >> ]

\* One entry of a table as the number the source writes.
Coef(t) == Dec(t, -3)

\* np.array(rows): a 2-D array of numbers when every row has the same length.
IsRectangular(rows) == \A r \in 1..Len(rows) : Len(rows[r]) = Len(rows[1])

\* array.T[lo:hi].T of a 2-D array: columns lo .. hi-1 (Python slice, clipped).
Columns(rows, lo, hi) ==
    [r \in 1..Len(rows) |->
        [c \in 1..(Min(hi, Len(rows[r])) - lo) |-> Coef(rows[r][lo + c])]]

\* array.T[lo:hi].T of a 1-D array of row lists (a ragged table): transposing
\* changes nothing, so the slice takes rows lo .. hi-1 as they are.
Rows(rows, lo, hi) ==
    [r \in 1..(Min(hi, Len(rows)) - lo) |->
        [c \in 1..Len(rows[lo + r]) |-> Coef(rows[lo + r][c])]]

\* GetPerezCoefficients falling back to the default table for a name it does
\* not know (coeffdict.get with a default): the variant the property of
\* unknown names must tell from GetPerezCoefficients.
GetPerezCoefficients_fallback(perezmodelt, strictArrays) ==
    LET array == IF perezmodelt \in DOMAIN coeffdict
                 THEN coeffdict[perezmodelt]
                 ELSE coeffdict["allsitescomposite1990"]
    IN  IF IsRectangular(array)
        THEN [status |-> "ok", ndim |-> 2,
              F1coeffs |-> Columns(array, 0, 3),
              F2coeffs |-> Columns(array, 3, 7)]
        ELSE IF strictArrays THEN [status |-> "ValueError"]
        ELSE [status |-> "ok", ndim |-> 1,
              F1coeffs |-> Rows(array, 0, 3),
              F2coeffs |-> Rows(array, 3, 7)]

\* strictArrays: whether np.array refuses a ragged list (ValueError) or makes
\* a 1-D array of lists of it; which one depends on the numpy installed.
GetPerezCoefficients(perezmodelt, strictArrays) ==
    IF perezmodelt \notin DOMAIN coeffdict
    THEN [status |-> "KeyError"]
    ELSE LET array == coeffdict[perezmodelt]
         IN  IF IsRectangular(array)
             THEN [status |-> "ok", ndim |-> 2,
                   F1coeffs |-> Columns(array, 0, 3),
                   F2coeffs |-> Columns(array, 3, 7)]
             ELSE IF strictArrays THEN [status |-> "ValueError"]
             ELSE [status |-> "ok", ndim |-> 1,
                   F1coeffs |-> Rows(array, 0, 3),
                   F2coeffs |-> Rows(array, 3, 7)]


(***************************************************************************)
(* The cosine of the angle between the sun and the surface normal, as      *)
(* klucher1979 (COSTT), haydavies1980 (COSTT), reindl1990 (COSTT) and      *)
(* perez (A) each write it out:                                            *)
(* cosd(tilt)cosd(zen) + sind(tilt)sind(zen)cosd(az - surfaz).             *)
(***************************************************************************)
COSTT(SurfTilt, SurfAz, SunZen, SunAz) ==
    Series([i \in DOMAIN SunZen |->
        Add(Mul(cosd(SurfTilt), cosd(SunZen[i])),
            Mul(Mul(sind(SurfTilt), sind(SunZen[i])),
                cosd(Sub(SunAz[i], SurfAz))))])

(***************************************************************************)
(* perez                                                                   *)
(***************************************************************************)
kappa == Dec(1041, -3)

\* z = var.SunZen*np.pi/180
perez_z(SunZen) ==
    Series([i \in DOMAIN SunZen |-> Div(Mul(SunZen[i], PI), Num(180))])

\* Dhfilter = var.DHI > 0
Dhfilter(DHI) == Series([i \in DOMAIN DHI |-> Gt(DHI[i], Zero)])

\* The clearness index, nan where Dhfilter is false (the reindexed quotient).
perez_e(DHI, DNI, z) ==
    Series([i \in DOMAIN DHI |->
        IF Dhfilter(DHI)[i]
        THEN Div(Add(Div(Add(DHI[i], DNI[i]), DHI[i]), Mul(kappa, Cube(z[i]))),
                 Add(One, Mul(kappa, Cube(z[i]))))
        ELSE NaN])

\* The mask lo <= e < hi of one masked assignment.
Between(e, lo, hi) == Series([i \in DOMAIN e |-> Ge(e[i], lo) /\ Lt(e[i], hi)])

\* perez_ebin1 with the lower bounds exclusive (lo < e in place of lo <= e):
\* the variant the binning property must tell from perez_ebin1.
perez_ebin1_open(e) ==
    LET Open(lo, hi) == Series([i \in DOMAIN e |-> Gt(e[i], lo) /\ Lt(e[i], hi)])
        b0 == Series([i \in DOMAIN e |-> 0])
        b1 == SetWhereScalar(b0,
                  Series([i \in DOMAIN e |-> Lt(e[i], Dec(1065, -3))]), 1)
        b2 == SetWhereScalar(b1, Open(Dec(1065, -3), Dec(123, -2)), 2)
        b3 == SetWhereScalar(b2, Open(Dec(123, -2), Dec(15, -1)), 3)
        b4 == SetWhereScalar(b3, Open(Dec(15, -1), Dec(195, -2)), 4)
        b5 == SetWhereScalar(b4, Open(Dec(195, -2), Dec(28, -1)), 5)
        b6 == SetWhereScalar(b5, Open(Dec(28, -1), Dec(45, -1)), 6)
        b7 == SetWhereScalar(b6, Open(Dec(45, -1), Dec(62, -1)), 7)
    IN  SetWhereScalar(b7,
            Series([i \in DOMAIN e |-> Gt(e[i], Dec(62, -1))]), 8)

\* ebin after the eight masked assignments: 1..8, or 0 where none applied.
perez_ebin1(e) ==
    LET b0 == Series([i \in DOMAIN e |-> 0])
        b1 == SetWhereScalar(b0,
                  Series([i \in DOMAIN e |-> Lt(e[i], Dec(1065, -3))]), 1)
        b2 == SetWhereScalar(b1, Between(e, Dec(1065, -3), Dec(123, -2)), 2)
        b3 == SetWhereScalar(b2, Between(e, Dec(123, -2), Dec(15, -1)), 3)
        b4 == SetWhereScalar(b3, Between(e, Dec(15, -1), Dec(195, -2)), 4)
        b5 == SetWhereScalar(b4, Between(e, Dec(195, -2), Dec(28, -1)), 5)
        b6 == SetWhereScalar(b5, Between(e, Dec(28, -1), Dec(45, -1)), 6)
        b7 == SetWhereScalar(b6, Between(e, Dec(45, -1), Dec(62, -1)), 7)
    IN  SetWhereScalar(b7,
            Series([i \in DOMAIN e |-> Ge(e[i], Dec(62, -1))]), 8)

\* perez_ebinfilter as ebin >= 0, which lets the elements without a bin
\* through: the variant the exclusion property must tell from it.
perez_ebinfilter_all(ebin1) == Series([i \in DOMAIN ebin1 |-> ebin1[i] >= 0])

\* ebinfilter = ebin > 0
perez_ebinfilter(ebin1) == Series([i \in DOMAIN ebin1 |-> ebin1[i] > 0])

\* ebin = ebin-1; ebin[ebinfilter==False] = NaN; ebin.dropna().astype(int)
perez_ebin(ebin1) ==
    Select(Series([i \in DOMAIN ebin1 |-> ebin1[i] - 1]),
           perez_ebinfilter(ebin1))

\* perez_HExtra without the patch: the variant the property of the patch
\* must tell from it.
perez_HExtra_unpatched(HExtra) == HExtra

\* var.HExtra[var.HExtra==0] = .00000001
perez_HExtra(HExtra) ==
    SetWhereScalar(HExtra,
                   Series([i \in DOMAIN HExtra |-> EqNum(HExtra[i], Zero)]),
                   Dec(1, -8))

\* delt = var.DHI*var.AM/var.HExtra
perez_delt(DHI, AM, HExtra) ==
    Series([i \in DOMAIN DHI |-> Div(Mul(DHI[i], AM[i]), HExtra[i])])

\* Fc[k, c] of a numpy array: row k (a negative k counts from the end).
At(Fc, k, c) == Fc[(k % Len(Fc)) + 1][c + 1]

\* perez_F without F[F<0] = 0: the variant the property of the floored
\* factors must tell from perez_F.
perez_F_unfloored(Fc, ebin, delt, z) ==
    Series([i \in DOMAIN ebin |->
        Add(Add(At(Fc, ebin[i], 0), Mul(At(Fc, ebin[i], 1), delt[i])),
            Mul(At(Fc, ebin[i], 2), z[i]))])

\* F = Fc[ebin,0] + Fc[ebin,1]*delt[ebinfilter] + Fc[ebin,2]*z[ebinfilter];
\* F[F<0] = 0
perez_F(Fc, ebin, delt, z) ==
    LET F == Series([i \in DOMAIN ebin |->
                 Add(Add(At(Fc, ebin[i], 0), Mul(At(Fc, ebin[i], 1), delt[i])),
                     Mul(At(Fc, ebin[i], 2), z[i]))])
    IN  SetWhereScalar(F, Series([i \in DOMAIN F |-> Lt(F[i], Zero)]), Zero)

\* A = COSTT of the var.* inputs; A[A < 0] = 0
perez_A(SurfTilt, SurfAz, SunZen, SunAz) ==
    LET A == COSTT(SurfTilt, SurfAz, SunZen, SunAz)
    IN  SetWhereScalar(A, Series([i \in DOMAIN A |-> Lt(A[i], Zero)]), Zero)

\* B = cosd(var.SunZen); B[B < cosd(85)] = cosd(85)
perez_B(SunZen) ==
    LET B == Series([i \in DOMAIN SunZen |-> cosd(SunZen[i])])
    IN  SetWhereScalar(B,
            Series([i \in DOMAIN B |-> Lt(B[i], cosd(Num(85)))]),
            cosd(Num(85)))

\* The combined term for the elements under ebinfilter, before the floor.
perez_Combine(DHI, F1, F2, A, B, SurfTilt, ebinfilter) ==
    Series([i \in {j \in DOMAIN DHI : ebinfilter[j]} |->
        Mul(DHI[i],
            Add(Add(Mul(Mul(Dec(5, -1), Sub(One, F1[i])),
                        Add(One, cosd(SurfTilt))),
                    Div(Mul(F1[i], A[i]), B[i])),
                Mul(F2[i], sind(SurfTilt))))])

\* perez_Floor without the floor: the variant the property of the floor must
\* tell from it.
perez_Floor_none(SkyDiffuse) == SkyDiffuse

\* SkyDiffuse[SkyDiffuse <= 0] = 0
perez_Floor(SkyDiffuse) ==
    SetWhereScalar(SkyDiffuse,
        Series([i \in DOMAIN SkyDiffuse |-> Le(SkyDiffuse[i], Zero)]), Zero)

\* What the call gives back: its status, the caller's HExtra as the call
\* leaves it, the locals e, ebin and delt it computed on the way (for the
\* properties that are about them) and, when it returns, the frame.
perez_Return(coeffs, HExtra, locals, SkyDiffuse) ==
    IF coeffs.status # "ok"
    THEN [status |-> coeffs.status, HExtra |-> HExtra, locals |-> locals]
    ELSE IF coeffs.ndim # 2
    THEN [status |-> "IndexError", HExtra |-> HExtra, locals |-> locals]
    ELSE [status |-> "ok", HExtra |-> HExtra, locals |-> locals,
          In_Plane_SkyDiffuse |-> perez_Floor(SkyDiffuse)]

\* The whole call.  HExtra is patched before the coefficients are fetched, so
\* the patch is done also when the call raises; F1 and F2 index the
\* coefficient arrays with two subscripts, which a 1-D array refuses.
perez(SurfTilt, SurfAz, DHI, DNI, HExtra, SunZen, SunAz, AM, modelt, strictArrays) ==
    LET z       == perez_z(SunZen)
        e       == perez_e(DHI, DNI, z)
        ebin1   == perez_ebin1(e)
        ebin    == perez_ebin(ebin1)
        HExtra1 == perez_HExtra(HExtra)
        delt    == perez_delt(DHI, AM, HExtra1)
        coeffs  == GetPerezCoefficients(modelt, strictArrays)
    IN  perez_Return(coeffs, HExtra1,
            [e |-> e, ebin |-> ebin, delt |-> delt],
            perez_Combine(DHI,
                perez_F(coeffs.F1coeffs, ebin, delt, z),
                perez_F(coeffs.F2coeffs, ebin, delt, z),
                perez_A(SurfTilt, SurfAz, SunZen, SunAz),
                perez_B(SunZen), SurfTilt, perez_ebinfilter(ebin1)))

(***************************************************************************)
(* klucher1979                                                             *)
(***************************************************************************)
\* klucher_GHI with the floor at 1e-06 only: the variant the property of the
\* clamps must tell from klucher_GHI.
klucher_GHI_floor_only(GHI, DHI) ==
    SetWhereScalar(GHI,
        Series([i \in DOMAIN GHI |-> Lt(GHI[i], Dec(1, -6))]), Dec(1, -6))

\* GHI[GHI < DHI] = DHI; GHI[GHI < 1e-06] = 1e-06, on the caller's series.
klucher_GHI(GHI, DHI) ==
    LET G1 == SetWhere(GHI,
                  Series([i \in DOMAIN GHI |-> Lt(GHI[i], DHI[i])]), DHI)
    IN  SetWhereScalar(G1,
            Series([i \in DOMAIN G1 |-> Lt(G1[i], Dec(1, -6))]), Dec(1, -6))

\* F = 1 - ((DHI / GHI) ** 2)
klucher_F(DHI, GHI) ==
    Series([i \in DOMAIN DHI |-> Sub(One, Square(Div(DHI[i], GHI[i])))])

\* klucher1979 with F taken from GHI as passed and the clamps done after it:
\* the variant the property of repeated calls must tell from klucher1979.
klucher1979_late_clamp(SurfTilt, SurfAz, DHI, GHI, SunZen, SunAz) ==
    LET C == COSTT(SurfTilt, SurfAz, SunZen, SunAz)
        F == klucher_F(DHI, GHI)
    IN  [status |-> "ok", GHI |-> klucher_GHI(GHI, DHI),
         SkyDiffuse |->
            Series([i \in DOMAIN DHI |->
                Mul(Mul(Mul(DHI[i],
                            Mul(Dec(5, -1), Add(One, cosd(SurfTilt)))),
                        Add(One, Mul(F[i],
                                     Cube(sind(Div(SurfTilt, Num(2))))))),
                    Add(One, Mul(Mul(F[i], Square(C[i])),
                                 Cube(sind(SunZen[i])))))])]

klucher1979(SurfTilt, SurfAz, DHI, GHI, SunZen, SunAz) ==
    LET GHI1 == klucher_GHI(GHI, DHI)
        C    == COSTT(SurfTilt, SurfAz, SunZen, SunAz)
        F    == klucher_F(DHI, GHI1)
    IN  [status |-> "ok", GHI |-> GHI1,
         SkyDiffuse |->
            Series([i \in DOMAIN DHI |->
                Mul(Mul(Mul(DHI[i],
                            Mul(Dec(5, -1), Add(One, cosd(SurfTilt)))),
                        Add(One, Mul(F[i],
                                     Cube(sind(Div(SurfTilt, Num(2))))))),
                    Add(One, Mul(Mul(F[i], Square(C[i])),
                                 Cube(sind(SunZen[i])))))])]

(***************************************************************************)
(* haydavies1980 and reindl1990                                            *)
(***************************************************************************)
\* np.max(s, 0): the second argument is the axis, so this is the largest
\* element of the whole series.
SeriesMax(s) ==
    CHOOSE x \in {s[i] : i \in DOMAIN s} : \A i \in DOMAIN s : Le(s[i], x)

\* RB = np.max(COSTT,0) / np.max(cosd(SunZen),0.01745): one number for the
\* whole series.
RB(C, SunZen) ==
    Div(SeriesMax(C),
        SeriesMax(Series([i \in DOMAIN SunZen |-> cosd(SunZen[i])])))

\* AI = DNI / HExtra
AI(DNI, HExtra) == Series([i \in DOMAIN DNI |-> Div(DNI[i], HExtra[i])])

\* floatAxis: whether np.max takes the axis 0.01745 as axis 0 or raises
\* TypeError; which one depends on the numpy installed.
haydavies1980(SurfTilt, SurfAz, DHI, DNI, HExtra, SunZen, SunAz, floatAxis) ==
    IF ~floatAxis THEN [status |-> "TypeError"]
    ELSE LET C  == COSTT(SurfTilt, SurfAz, SunZen, SunAz)
             rb == RB(C, SunZen)
             ai == AI(DNI, HExtra)
         IN  [status |-> "ok",
              SkyDiffuse |->
                 Series([i \in DOMAIN DHI |->
                     Mul(DHI[i],
                         Add(Mul(ai[i], rb),
                             Mul(Mul(Sub(One, ai[i]), Dec(5, -1)),
                                 Add(One, cosd(SurfTilt)))))])]

\* reindl_GHI with the clamp at 0 only: the variant the property of the
\* clamps must tell from reindl_GHI.
reindl_GHI_zero_only(GHI) ==
    SetWhereScalar(GHI, Series([i \in DOMAIN GHI |-> Lt(GHI[i], Zero)]), Zero)

\* GHI[GHI < small] = small ... GHI[GHI < 0] = 0, on the caller's series.
reindl_GHI(GHI) ==
    LET G1 == SetWhereScalar(GHI,
                  Series([i \in DOMAIN GHI |-> Lt(GHI[i], Dec(1, -6))]),
                  Dec(1, -6))
    IN  SetWhereScalar(G1, Series([i \in DOMAIN G1 |-> Lt(G1[i], Zero)]), Zero)

\* HB = DNI*cosd(SunZen); HB[HB < 0] = 0
reindl_HB(DNI, SunZen) ==
    LET HB == Series([i \in DOMAIN DNI |-> Mul(DNI[i], cosd(SunZen[i]))])
    IN  SetWhereScalar(HB, Series([i \in DOMAIN HB |-> Lt(HB[i], Zero)]), Zero)

\* F = np.sqrt(HB / GHI)
reindl_F(HB, GHI) ==
    Series([i \in DOMAIN HB |-> Sqrt(Div(HB[i], GHI[i]))])

\* The np.max call comes before the clamp of GHI: when it raises, GHI is as
\* the caller passed it.
reindl1990(SurfTilt, SurfAz, DHI, DNI, GHI, HExtra, SunZen, SunAz, floatAxis) ==
    IF ~floatAxis THEN [status |-> "TypeError", GHI |-> GHI]
    ELSE LET C     == COSTT(SurfTilt, SurfAz, SunZen, SunAz)
             rb    == RB(C, SunZen)
             ai    == AI(DNI, HExtra)
             GHI1  == reindl_GHI(GHI)
             F     == reindl_F(reindl_HB(DNI, SunZen), GHI1)
             SCUBE == Cube(sind(Mul(SurfTilt, Dec(5, -1))))
         IN  [status |-> "ok", GHI |-> GHI1,
              SkyDiffuse |->
                 Series([i \in DOMAIN DHI |->
                     Mul(DHI[i],
                         Add(Mul(ai[i], rb),
                             Mul(Mul(Mul(Sub(One, ai[i]), Dec(5, -1)),
                                     Add(One, cosd(SurfTilt))),
                                 Add(One, Mul(F[i], SCUBE)))))])]

(***************************************************************************)
(* isotropicsky, kingdiffuse, grounddiffuse, globalinplane                 *)
(***************************************************************************)
\* isotropicsky with the view factor of the ground, (1 - cosd): the variant
\* the property of the multiplier must tell from isotropicsky.
isotropicsky_ground_view(SurfTilt, DHI) ==
    [status |-> "ok",
     SkyDiffuse |->
        Series([i \in DOMAIN DHI |->
            Mul(Mul(DHI[i], Sub(One, cosd(SurfTilt))), Dec(5, -1))])]

isotropicsky(SurfTilt, DHI) ==
    [status |-> "ok",
     SkyDiffuse |->
        Series([i \in DOMAIN DHI |->
            Mul(Mul(DHI[i], Add(One, cosd(SurfTilt))), Dec(5, -1))])]

\* kingdiffuse with the view factor of the sky, (1 + cosd), on the GHI term
\* too: the variant the property of the flat surface must tell from it.
kingdiffuse_sky_view(SurfTilt, DHI, GHI, SunZen) ==
    [status |-> "ok",
     SkyDiffuse |->
        Series([i \in DOMAIN DHI |->
            Add(Div(Mul(DHI[i], Add(One, cosd(SurfTilt))), Num(2)),
                Div(Mul(Mul(GHI[i],
                            Sub(Mul(Dec(12, -3), SunZen[i]), Dec(4, -2))),
                        Add(One, cosd(SurfTilt))),
                    Num(2)))])]

kingdiffuse(SurfTilt, DHI, GHI, SunZen) ==
    [status |-> "ok",
     SkyDiffuse |->
        Series([i \in DOMAIN DHI |->
            Add(Div(Mul(DHI[i], Add(One, cosd(SurfTilt))), Num(2)),
                Div(Mul(Mul(GHI[i],
                            Sub(Mul(Dec(12, -3), SunZen[i]), Dec(4, -2))),
                        Sub(One, cosd(SurfTilt))),
                    Num(2)))])]

\* grounddiffuse with the view factor of the sky, (1 + cos): the variant the
\* property of the ground view must tell from grounddiffuse.
grounddiffuse_sky_view(SurfTilt, GHI, Albedo) ==
    [status |-> "ok",
     GR |-> Series([i \in DOMAIN GHI |->
                Mul(Mul(GHI[i], Albedo),
                    Mul(Add(One, cosd(SurfTilt)), Dec(5, -1)))])]

grounddiffuse(SurfTilt, GHI, Albedo) ==
    [status |-> "ok",
     GR |-> Series([i \in DOMAIN GHI |->
                Mul(Mul(GHI[i], Albedo),
                    Mul(Sub(One, cosd(SurfTilt)), Dec(5, -1)))])]

\* globalinplane with the ground-reflected part left out of Ediff: the
\* variant the composition property must tell from globalinplane.
globalinplane_sky_only(SurfTilt, SurfAz, AOI, DNI, In_Plane_SkyDiffuse, GR) ==
    LET Eb == Series([i \in DOMAIN DNI |-> Mul(DNI[i], cosd(AOI[i]))])
    IN  [status |-> "ok",
         E     |-> Series([i \in DOMAIN DNI |->
                       Add(Add(Eb[i], In_Plane_SkyDiffuse[i]), GR[i])]),
         Eb    |-> Eb,
         Ediff |-> In_Plane_SkyDiffuse]

\* Eb = DNI*np.cos(np.radians(AOI)); E = Eb + Sky + GR; Ediff = Sky + GR
globalinplane(SurfTilt, SurfAz, AOI, DNI, In_Plane_SkyDiffuse, GR) ==
    LET Eb == Series([i \in DOMAIN DNI |-> Mul(DNI[i], cosd(AOI[i]))])
    IN  [status |-> "ok",
         E     |-> Series([i \in DOMAIN DNI |->
                       Add(Add(Eb[i], In_Plane_SkyDiffuse[i]), GR[i])]),
         Eb    |-> Eb,
         Ediff |-> Series([i \in DOMAIN DNI |->
                       Add(In_Plane_SkyDiffuse[i], GR[i])])]


(***************************************************************************)
(* extraradiation.  Its numbers are fixed-point integers: angles and the   *)
(* values of np.cos and np.sin count 10^-4, Rfact2 counts 10^-7 and Ea     *)
(* counts 10^-5 W/m2.  Products stay within 32 bits.                       *)
(***************************************************************************)
\* One, in the unit of the angles and of the trigonometric values.
TrigScale == 10^4

\* 2 * np.pi, in units of 10^-4.
TwoPi == 62832

\* a / b cut towards zero.
CutDiv(a, b) == Sgn(a) * (Abs(a) \div b)

RECURSIVE SinSeries(_, _, _)
\* The terms of the sine series from term (the one of degree k - 1) on.
SinSeries(term, x2, k) ==
    IF term = 0 THEN 0
    ELSE term + SinSeries(CutDiv(-CutDiv(term * x2, TrigScale), k * (k + 1)),
                          x2, k + 2)

\* np.sin of an angle of the first quadrant.
SinQuadrant(x) == SinSeries(x, CutDiv(x * x, TrigScale), 2)

\* np.sin(x)
npsin(x) ==
    LET r == x % TwoPi
    IN  IF r <= TwoPi \div 4 THEN SinQuadrant(r)
        ELSE IF r <= TwoPi \div 2 THEN SinQuadrant(TwoPi \div 2 - r)
        ELSE IF r <= 3 * (TwoPi \div 4) THEN -SinQuadrant(r - TwoPi \div 2)
        ELSE -SinQuadrant(TwoPi - r)

\* np.cos(x)
npcos(x) == npsin(x + TwoPi \div 4)

\* B = 2 * np.pi * var.doy / 365
extraradiation_B(doy) == (TwoPi * doy) \div 365

\* Rfact2 = 1.00011 + 0.034221*cos(B) + 0.00128*sin(B) + 0.000719*cos(2B)
\*          + 7.7e-05*sin(2B), in units of 10^-7.
extraradiation_Rfact2(B) ==
    10001100 + CutDiv(34221 * npcos(B), 1000)
        + CutDiv(12800 * npsin(B), TrigScale)
        + CutDiv(7190 * npcos(2 * B), TrigScale)
        + CutDiv(770 * npsin(2 * B), TrigScale)

\* extraradiation with the last term of Rfact2 left out: the variant the
\* property of the formula must tell from extraradiation.
extraradiation_four_terms(doy) ==
    LET B == extraradiation_B(doy)
    IN  [status |-> "ok",
         Ea |-> 1367 * CutDiv(extraradiation_Rfact2(B)
                                 - CutDiv(770 * npsin(2 * B), TrigScale), 100)]

\* Ea = 1367 * Rfact2, in units of 10^-5 W/m2.
extraradiation(doy) ==
    [status |-> "ok",
     Ea |-> 1367 * CutDiv(extraradiation_Rfact2(extraradiation_B(doy)), 100)]

(***************************************************************************)
(* The caller.  args holds the objects the caller passes: the scalars and  *)
(* the series (the columns of its data, one element per observation).  A   *)
(* call that assigns into a series it was passed changes args.  call is    *)
(* the last call made: the function, the model name given, what it         *)
(* returned or raised, and what the call before it gave when that was the  *)
(* same call on the same objects.                                          *)
(***************************************************************************)
VARIABLES args, call, build

vars == <<args, call, build>>

\* The length of the caller's series.
SeriesLen == 2

Index == 1..SeriesLen

\* The observations the caller's data is cut from.
Obs ==
    << \* clear sky, sun at the zenith, in front of the surface
      [DHI |-> Num(100), DNI |-> Num(1000), GHI |-> Num(1100),
       HExtra |-> Num(1400), SunZen |-> Num(0), SunAz |-> Num(180),
       AM |-> Num(1), AOI |-> Num(0),
       In_Plane_SkyDiffuse |-> Dec(1006, -1), GR |-> Dec(506, -1)],
      \* overcast, GHI measured below DHI, sun behind the surface
      [DHI |-> Num(100), DNI |-> Num(0), GHI |-> Num(50),
       HExtra |-> Num(1400), SunZen |-> Num(60), SunAz |-> Num(360),
       AM |-> Num(2), AOI |-> Num(60), In_Plane_SkyDiffuse |-> Num(80),
       GR |-> Num(10)],
      \* night: nothing measured
      [DHI |-> Num(0), DNI |-> Num(0), GHI |-> Num(0),
       HExtra |-> Num(0), SunZen |-> Num(120), SunAz |-> Num(360),
       AM |-> Num(20), AOI |-> Num(120), In_Plane_SkyDiffuse |-> Num(0),
       GR |-> Num(0)],
      \* sun on the horizon behind the surface, HExtra missing (0)
      [DHI |-> Num(50), DNI |-> Num(0), GHI |-> Num(40),
       HExtra |-> Num(0), SunZen |-> Num(90), SunAz |-> Num(360),
       AM |-> Num(20), AOI |-> Num(90), In_Plane_SkyDiffuse |-> Num(20),
       GR |-> Num(5)],
      \* broken cloud, sun at 60 degrees in front of the surface
      [DHI |-> Num(500), DNI |-> Num(1000), GHI |-> Num(1000),
       HExtra |-> Num(1400), SunZen |-> Num(60), SunAz |-> Num(180),
       AM |-> Num(2), AOI |-> Num(60), In_Plane_SkyDiffuse |-> Num(400),
       GR |-> Num(100)] >>

Tilts == {Num(0), Num(90), Num(180)}

\* The caller's data: SeriesLen observations in a row, from the k-th on.
Window(rows, k) == [i \in Index |-> rows[((k + i - 2) % Len(rows)) + 1]]

Column(rows, f) == Series([i \in DOMAIN rows |-> rows[i][f]])

Frame(tilt, rows) ==
    [SurfTilt |-> tilt, SurfAz |-> Num(180), Albedo |-> Dec(2, -1), doy |-> 1,
     DHI |-> Column(rows, "DHI"), DNI |-> Column(rows, "DNI"),
     GHI |-> Column(rows, "GHI"), HExtra |-> Column(rows, "HExtra"),
     SunZen |-> Column(rows, "SunZen"), SunAz |-> Column(rows, "SunAz"),
     AM |-> Column(rows, "AM"), AOI |-> Column(rows, "AOI"),
     In_Plane_SkyDiffuse |-> Column(rows, "In_Plane_SkyDiffuse"),
     GR |-> Column(rows, "GR")]

\* No value: what a call that raised gives.
NoValue == [raised |-> TRUE]

NoCall ==
    [fn |-> "none", modelt |-> "", n |-> 0, status |-> "none",
     value |-> NoValue, prev |-> [status |-> "none", value |-> NoValue]]

\* The record of a call of fn (with model name given) that ended with status
\* and value.
Called(fn, given, status, value) ==
    LET again == call.fn = fn /\ call.modelt = given
    IN  [fn |-> fn, modelt |-> given, n |-> IF again THEN 2 ELSE 1,
         status |-> status, value |-> value,
         prev |-> IF again THEN [status |-> call.status, value |-> call.value]
                  ELSE [status |-> status, value |-> value]]

\* The numpy builds: "legacy" makes a 1-D array of lists of a ragged list and
\* takes a float axis as axis 0; "strict" raises for both.
Builds == {"legacy", "strict"}

strictArrays == build = "strict"

floatAxis == build = "legacy"

\* The names a caller may pass: the embedded ones, the documented '1990',
\* and a name that is none of them.  Omitted stands for passing no name.
Omitted == "<omitted>"

ModelNames == DOMAIN coeffdict \cup {"1990", "not_a_model"}

\* modelt='allsitescomposite1990' when the caller gives none.
Given(given) == IF given = Omitted THEN "allsitescomposite1990" ELSE given

Init ==
    /\ \E tilt \in Tilts, k \in 1..Len(Obs) :
           args = Frame(tilt, Window(Obs, k))
    /\ call = NoCall
    /\ build \in Builds

GetPerezCoefficientsCall ==
    \E given \in ModelNames :
        \E r \in {GetPerezCoefficients(given, strictArrays)} :
            /\ call' = Called("GetPerezCoefficients", given, r.status,
                              IF r.status = "ok"
                              THEN [ndim |-> r.ndim, F1coeffs |-> r.F1coeffs,
                                    F2coeffs |-> r.F2coeffs]
                              ELSE NoValue)
            /\ UNCHANGED <<args, build>>

PerezWith(names) ==
    \E given \in names :
        \E r \in {perez(args.SurfTilt, args.SurfAz, args.DHI, args.DNI,
                       args.HExtra, args.SunZen, args.SunAz, args.AM,
                       Given(given), strictArrays)} :
            /\ args' = [args EXCEPT !.HExtra = r.HExtra]
            /\ call' = Called("perez", given, r.status,
                              IF r.status = "ok"
                              THEN [In_Plane_SkyDiffuse |-> r.In_Plane_SkyDiffuse]
                              ELSE NoValue)
            /\ UNCHANGED build

perezCall == PerezWith(ModelNames \cup {Omitted})

klucher1979Call ==
    \E r \in {klucher1979(args.SurfTilt, args.SurfAz, args.DHI, args.GHI,
                         args.SunZen, args.SunAz)} :
        /\ args' = [args EXCEPT !.GHI = r.GHI]
        /\ call' = Called("klucher1979", "", r.status,
                          [SkyDiffuse |-> r.SkyDiffuse])
        /\ UNCHANGED build

reindl1990Call ==
    \E r \in {reindl1990(args.SurfTilt, args.SurfAz, args.DHI, args.DNI,
                        args.GHI, args.HExtra, args.SunZen, args.SunAz,
                        floatAxis)} :
        /\ args' = [args EXCEPT !.GHI = r.GHI]
        /\ call' = Called("reindl1990", "", r.status,
                          IF r.status = "ok"
                          THEN [SkyDiffuse |-> r.SkyDiffuse] ELSE NoValue)
        /\ UNCHANGED build

haydavies1980Call ==
    \E r \in {haydavies1980(args.SurfTilt, args.SurfAz, args.DHI, args.DNI,
                           args.HExtra, args.SunZen, args.SunAz, floatAxis)} :
        /\ call' = Called("haydavies1980", "", r.status,
                          IF r.status = "ok"
                          THEN [SkyDiffuse |-> r.SkyDiffuse] ELSE NoValue)
        /\ UNCHANGED <<args, build>>

isotropicskyCall ==
    \E r \in {isotropicsky(args.SurfTilt, args.DHI)} :
        /\ call' = Called("isotropicsky", "", r.status,
                          [SkyDiffuse |-> r.SkyDiffuse])
        /\ UNCHANGED <<args, build>>

kingdiffuseCall ==
    \E r \in {kingdiffuse(args.SurfTilt, args.DHI, args.GHI, args.SunZen)} :
        /\ call' = Called("kingdiffuse", "", r.status,
                          [SkyDiffuse |-> r.SkyDiffuse])
        /\ UNCHANGED <<args, build>>

grounddiffuseCall ==
    \E r \in {grounddiffuse(args.SurfTilt, args.GHI, args.Albedo)} :
        /\ call' = Called("grounddiffuse", "", r.status, [GR |-> r.GR])
        /\ UNCHANGED <<args, build>>

globalinplaneCall ==
    \E r \in {globalinplane(args.SurfTilt, args.SurfAz, args.AOI, args.DNI,
                           args.In_Plane_SkyDiffuse, args.GR)} :
        /\ call' = Called("globalinplane", "", r.status,
                          [E |-> r.E, Eb |-> r.Eb, Ediff |-> r.Ediff])
        /\ UNCHANGED <<args, build>>

extraradiationCall ==
    \E r \in {extraradiation(args.doy)} :
        /\ call' = Called("extraradiation", "", r.status, [Ea |-> r.Ea])
        /\ UNCHANGED <<args, build>>

Next ==
    \/ extraradiationCall
    \/ GetPerezCoefficientsCall
    \/ perezCall
    \/ klucher1979Call
    \/ reindl1990Call
    \/ haydavies1980Call
    \/ isotropicskyCall
    \/ kingdiffuseCall
    \/ grounddiffuseCall
    \/ globalinplaneCall

Spec == Init /\ [][Next]_vars

(***************************************************************************)
(* perez on data whose clearness index falls in every bin and on every     *)
(* breakpoint.  With the sun at the zenith z = 0, so e = (DHI + DNI)/DHI.  *)
(***************************************************************************)
ClearSky(DHI, DNI) == [Obs[1] EXCEPT !.DHI = Num(DHI), !.DNI = Num(DNI)]

ClearnessObs ==
    << ClearSky(100, 0),      \* e = 1
       ClearSky(200, 12),     \* e = 1.06
       ClearSky(200, 13),     \* e = 1.065
       ClearSky(100, 23),     \* e = 1.23
       ClearSky(100, 50),     \* e = 1.5
       ClearSky(100, 95),     \* e = 1.95
       ClearSky(100, 180),    \* e = 2.8
       ClearSky(100, 350),    \* e = 4.5
       ClearSky(100, 519),    \* e = 6.19
       ClearSky(100, 520),    \* e = 6.2
       [Obs[2] EXCEPT !.DNI = Num(300)],   \* sun at 60 degrees
       Obs[3] >>              \* DHI = 0: e is not defined

InitClearness ==
    /\ \E tilt \in Tilts, k \in 1..Len(ClearnessObs) :
           args = Frame(tilt, Window(ClearnessObs, k))
    /\ call = NoCall
    /\ build \in Builds

perezDefaultCall == PerezWith({Omitted})

NextClearness == perezDefaultCall

SpecClearness == InitClearness /\ [][NextClearness]_vars

(***************************************************************************)
(* extraradiation on every day of the year.                                *)
(***************************************************************************)
\* The last day extraradiation accepts: 'x<367'.
MaxDoy == 366

InitDays ==
    /\ \E doy \in 1..MaxDoy :
           args = [Frame(Num(0), Window(Obs, 1)) EXCEPT !.doy = doy]
    /\ call = NoCall
    /\ build \in Builds

NextDays == extraradiationCall

SpecDays == InitDays /\ [][NextDays]_vars

(***************************************************************************)
(* Properties.                                                             *)
(***************************************************************************)
\* The eleven names the specification enumerates for the embedded tables.
ElevenNames ==
    {"allsitescomposite1990", "allsitescomposite1988", "sandiacomposite1988",
     "usacomposite1988", "france1988", "phoenix1988", "elmonte1988",
     "osage1988", "albuquerque1988", "capecanaveral1988", "albany1988"}

\* perez on the caller's objects a, under the model name given.
PerezOn(a, given) ==
    perez(a.SurfTilt, a.SurfAz, a.DHI, a.DNI, a.HExtra, a.SunZen, a.SunAz,
          a.AM, Given(given), strictArrays)

\* The last call was perez and it returned.
PerezReturned == call.fn = "perez" /\ call.status = "ok"

TableColumns(name, lo, hi) ==
    [r \in 1..8 |-> [c \in 1..(hi - lo) |-> Coef(coeffdict[name][r][lo + c])]]

\* C2: for every one of the eleven embedded names the table has 8 rows of 6
\* columns, and GetPerezCoefficients returns the 8x3 matrix of columns 0-2 as
\* F1 and the 8x3 matrix of columns 3-5 as F2.
C2_EveryTableIs8x6 ==
    (call.fn = "GetPerezCoefficients" /\ call.modelt \in ElevenNames)
        => /\ Len(coeffdict[call.modelt]) = 8
           /\ \A r \in 1..8 : Len(coeffdict[call.modelt][r]) = 6
           /\ call.status = "ok"
           /\ call.value.F1coeffs = TableColumns(call.modelt, 0, 3)
           /\ call.value.F2coeffs = TableColumns(call.modelt, 3, 6)

\* C3: the model name '1990' is accepted by GetPerezCoefficients and by perez,
\* and GetPerezCoefficients gives for it the coefficients of
\* 'allsitescomposite1990'.
C3_1990IsAccepted ==
    (call.fn \in {"GetPerezCoefficients", "perez"} /\ call.modelt = "1990")
        => /\ call.status = "ok"
           /\ call.fn = "GetPerezCoefficients"
                => /\ call.value.F1coeffs =
                          TableColumns("allsitescomposite1990", 0, 3)
                   /\ call.value.F2coeffs =
                          TableColumns("allsitescomposite1990", 3, 6)

\* The breakpoints of the clearness bins.
Breakpoints ==
    << Dec(1065, -3), Dec(123, -2), Dec(15, -1), Dec(195, -2), Dec(28, -1),
       Dec(45, -1), Dec(62, -1) >>

\* The bin of e, 1..8: one more than the number of breakpoints at or below e.
BinOf(e) == 1 + Cardinality({k \in DOMAIN Breakpoints : Ge(e, Breakpoints[k])})

\* C4: in perez every element whose clearness index e is defined gets exactly
\* the bin the breakpoints give it with lower bounds inclusive, and the
\* zero-based row index used for the coefficient lookup is in 0..7.
C4_ClearnessBins ==
    call.fn = "perez" =>
        \A r \in {PerezOn(args, call.modelt)} :
            \A i \in Index :
                \/ IsNaN(r.locals.e[i])
                \/ /\ i \in DOMAIN r.locals.ebin
                   /\ r.locals.ebin[i] = BinOf(r.locals.e[i]) - 1
                   /\ r.locals.ebin[i] \in 0..7

\* C4 happens: perez returned for data with an element just below the last
\* breakpoint (row 6) and an element on it (row 7).
C4_Witness ==
    /\ PerezReturned
    /\ \E r \in {PerezOn(args, call.modelt)} :
           \E i, j \in DOMAIN r.locals.ebin :
               /\ r.locals.e[i] = Dec(619, -2) /\ r.locals.ebin[i] = 6
               /\ r.locals.e[j] = Dec(62, -1) /\ r.locals.ebin[j] = 7

\* The model names under which perez returns on every numpy.
SoundNames == ElevenNames \ {"allsitescomposite1988"}

\* C5: in perez an element with DHI <= 0 gets no bin, makes the call raise
\* nothing, and has no value in the result: the result holds a value for
\* exactly the elements with DHI > 0.
C5_NonPositiveDHIExcluded ==
    call.fn = "perez" =>
        /\ \A r \in {PerezOn(args, call.modelt)} :
               \A i \in Index :
                   i \in DOMAIN r.locals.ebin <=> Gt(args.DHI[i], Zero)
        /\ Given(call.modelt) \in SoundNames => call.status = "ok"
        /\ call.status = "ok" =>
               DOMAIN call.value.In_Plane_SkyDiffuse =
                   {i \in Index : Gt(args.DHI[i], Zero)}

\* C5 happens: perez returned for data with an element of DHI = 0 and one of
\* DHI > 0, and the frame holds the second one only.
C5_Witness ==
    /\ PerezReturned
    /\ \E i, j \in Index :
           /\ args.DHI[i] = Zero
           /\ Gt(args.DHI[j], Zero)
           /\ DOMAIN call.value.In_Plane_SkyDiffuse = Index \ {i}
           /\ j \in DOMAIN call.value.In_Plane_SkyDiffuse

\* The combined term of the last perez call, before the floor.
PerezCombined ==
    LET r == PerezOn(args, call.modelt)
        c == GetPerezCoefficients(Given(call.modelt), strictArrays)
        z == perez_z(args.SunZen)
    IN  perez_Combine(args.DHI,
            perez_F(c.F1coeffs, r.locals.ebin, r.locals.delt, z),
            perez_F(c.F2coeffs, r.locals.ebin, r.locals.delt, z),
            perez_A(args.SurfTilt, args.SurfAz, args.SunZen, args.SunAz),
            perez_B(args.SunZen), args.SurfTilt,
            [i \in Index |-> i \in DOMAIN r.locals.ebin])

\* C6: every value perez returns is >= 0: it is the combined term where that
\* is positive and 0 where it is negative or zero, whatever the table.
C6_SkyDiffuseNonNegative ==
    PerezReturned =>
        \A c \in {PerezCombined} :
            \A i \in DOMAIN call.value.In_Plane_SkyDiffuse :
                /\ Ge(call.value.In_Plane_SkyDiffuse[i], Zero)
                /\ call.value.In_Plane_SkyDiffuse[i] =
                       IF Le(c[i], Zero) THEN Zero ELSE c[i]

\* C6 happens: perez returned a 0 where the combined term was negative.
C6_Witness ==
    /\ PerezReturned
    /\ \E i \in DOMAIN call.value.In_Plane_SkyDiffuse :
           /\ Lt(PerezCombined[i], Zero)
           /\ call.value.In_Plane_SkyDiffuse[i] = Zero

\* C7: perez replaces every element of HExtra that is 0 by 1e-8 and computes
\* delt = DHI*AM/HExtra from the patched series, so that no delt is a
\* quotient by zero; after the call no element of HExtra is 0.
C7_HExtraPatchedBeforeDelta ==
    /\ \A r \in {PerezOn(args, Omitted)} :
           \A i \in Index :
               /\ r.HExtra[i] = IF EqNum(args.HExtra[i], Zero)
                                THEN Dec(1, -8) ELSE args.HExtra[i]
               /\ r.locals.delt[i] =
                      Div(Mul(args.DHI[i], args.AM[i]), r.HExtra[i])
               /\ IsFinite(r.locals.delt[i])
    /\ call.fn = "perez" => \A i \in Index : ~EqNum(args.HExtra[i], Zero)

\* C7 happens: perez returned a value for an element whose HExtra it patched
\* to 1e-8.
C7_Witness ==
    /\ PerezReturned
    /\ \E i \in DOMAIN call.value.In_Plane_SkyDiffuse :
           args.HExtra[i] = Dec(1, -8)

\* C8 as stated: the total is the sum of the beam and the diffuse components
\* globalinplane returns, for every input.
C8_TotalIsBeamPlusDiffuse ==
    call.fn = "globalinplane" =>
        \A i \in Index :
            call.value.E[i] = Add(call.value.Eb[i], call.value.Ediff[i])

\* C8: globalinplane returns beam = DNI*cos(AOI), diffuse = sky + ground and
\* total = (beam + sky) + ground, the sums rounded as they are made; for
\* AOI = 0 the beam is DNI and the total is (DNI + sky) + ground.  It takes
\* the sky-diffuse series as an argument and calls no model.
C8_Composition ==
    call.fn = "globalinplane" =>
        \A i \in Index :
            /\ call.status = "ok"
            /\ call.value.Eb[i] = Mul(args.DNI[i], cosd(args.AOI[i]))
            /\ call.value.Ediff[i] =
                   Add(args.In_Plane_SkyDiffuse[i], args.GR[i])
            /\ call.value.E[i] =
                   Add(Add(call.value.Eb[i], args.In_Plane_SkyDiffuse[i]),
                       args.GR[i])
            /\ args.AOI[i] = Zero =>
                   /\ call.value.Eb[i] = args.DNI[i]
                   /\ call.value.E[i] =
                          Add(Add(args.DNI[i], args.In_Plane_SkyDiffuse[i]),
                              args.GR[i])

\* C8 happens: globalinplane returned for an element with AOI = 0 whose
\* total is not the rounded sum of its beam and its diffuse.
C8_Witness ==
    /\ call.fn = "globalinplane"
    /\ \E i \in Index :
           /\ args.AOI[i] = Zero
           /\ call.value.Eb[i] = args.DNI[i]
           /\ Gt(args.DNI[i], Zero)
           /\ call.value.E[i] # Add(call.value.Eb[i], call.value.Ediff[i])

\* C9: no call alters the objects the caller passed: after any call args
\* holds what it held before.
C9_ArgumentsUnaltered == [][args' = args]_vars

\* C10: a call repeated right after itself on the same objects gives what
\* the first call gave, for every function.
C10_RepeatedCallSame ==
    call.n = 2 => call.prev = [status |-> call.status, value |-> call.value]

\* C10 happens: klucher1979 was called twice in a row on a GHI that the
\* first call had raised to DHI.
C10_Witness ==
    /\ call.fn = "klucher1979"
    /\ call.n = 2
    /\ \E i \in Index :
           /\ args.GHI[i] = Num(100)
           /\ args.DHI[i] = Num(100)
           /\ args.DNI[i] = Zero

\* The sky-diffuse models.
SkyModels ==
    {"isotropicsky", "klucher1979", "kingdiffuse", "haydavies1980",
     "reindl1990", "perez"}

\* The last call was a sky-diffuse model and it returned.
SkyReturned == call.fn \in SkyModels /\ call.status = "ok"

\* The series a sky-diffuse model returned.
SkyValue ==
    IF call.fn = "perez" THEN call.value.In_Plane_SkyDiffuse
    ELSE call.value.SkyDiffuse

\* |a - b| <= b / 1000: a is b up to the rounding of a few operations.
Near(a, b) ==
    LET d == Sub(a, b)
    IN  Le(IF Lt(d, Zero) THEN Neg(d) ELSE d, Mul(b, Dec(1, -3)))

C12_IsotropicMultiplier ==
    call.fn = "isotropicsky" =>
        /\ call.status = "ok"
        /\ \A i \in Index :
               /\ Ge(call.value.SkyDiffuse[i], Zero)
               /\ args.SurfTilt = Zero
                      => call.value.SkyDiffuse[i] = args.DHI[i]
               /\ args.SurfTilt = Num(90)
                      => call.value.SkyDiffuse[i] =
                             Mul(args.DHI[i], Dec(5, -1))
               /\ args.SurfTilt = Num(180)
                      => call.value.SkyDiffuse[i] = Zero
        /\ \A i, j \in Index :
               /\ args.DHI[i] = args.DHI[j]
                      => call.value.SkyDiffuse[i] = call.value.SkyDiffuse[j]
               /\ Le(args.DHI[i], args.DHI[j])
                      => Le(call.value.SkyDiffuse[i], call.value.SkyDiffuse[j])

\* C12 happens: isotropicsky at tilt = 0 returned 100 for DHI = 100 and more
\* for an element of larger DHI.
C12_Witness ==
    /\ call.fn = "isotropicsky"
    /\ args.SurfTilt = Zero
    /\ \E i, j \in Index :
           /\ args.DHI[i] = Num(100)
           /\ call.value.SkyDiffuse[i] = Num(100)
           /\ Lt(args.DHI[i], args.DHI[j])
           /\ Lt(call.value.SkyDiffuse[i], call.value.SkyDiffuse[j])

SeriesEa(doy, c5) ==
    LET B == (TwoPi * doy) \div 365
    IN  1367 * CutDiv(10001100 + CutDiv(34221 * npcos(B), 1000)
                          + CutDiv(12800 * npsin(B), TrigScale)
                          + CutDiv(7190 * npcos(2 * B), TrigScale)
                          + CutDiv(c5 * npsin(2 * B), TrigScale), 100)

\* Ea, in units of 10^-5 W/m2, is within 1 W/m2 of 1414.9.
NearDayOne(Ea) == Ea >= 141390000 /\ Ea <= 141590000

\* C14 as stated: Ea is the series with 0.0000077 on sin(2B), about 1414.9
\* for day 1.
C14_SeriesAsStated ==
    call.fn = "extraradiation" =>
        /\ call.value.Ea = SeriesEa(args.doy, 77)
        /\ args.doy = 1 => NearDayOne(call.value.Ea)

\* C14: extraradiation returns Ea = 1367*(1.00011 + 0.034221*cos(B) +
\* 0.00128*sin(B) + 0.000719*cos(2B) + 0.000077*sin(2B)) with
\* B = 2*pi*doy/365, for every day 1..366, and about 1414.9 W/m2 (within 1)
\* for day 1.
C14_FourierSeries ==
    call.fn = "extraradiation" =>
        /\ call.status = "ok"
        /\ call.value.Ea = SeriesEa(args.doy, 770)
        /\ args.doy = 1 => NearDayOne(call.value.Ea)

\* C14 happens: extraradiation returned for day 46, where sin(2B) is near 1
\* and the value is not that of the series with 0.0000077.
C14_Witness ==
    /\ call.fn = "extraradiation"
    /\ args.doy = 46
    /\ call.value.Ea # SeriesEa(46, 77)
    /\ call.value.Ea > 140100000 /\ call.value.Ea < 140200000

\* The larger of two numbers.
Larger(a, b) == IF Lt(a, b) THEN b ELSE a

\* C15: where haydavies1980 or reindl1990 return, the beam ratio RB they used
\* is, for every element, that element's COSTT floored at 0 over that
\* element's cos(zenith) floored at 0.01745, and so is >= 0 and finite.
C15_BeamRatioPerElement ==
    (call.fn \in {"haydavies1980", "reindl1990"} /\ call.status = "ok") =>
        \A C \in {COSTT(args.SurfTilt, args.SurfAz, args.SunZen, args.SunAz)} :
            \A rb \in {RB(C, args.SunZen)} :
                \A i \in Index :
                    /\ rb = Div(Larger(C[i], Zero),
                                Larger(cosd(args.SunZen[i]), Dec(1745, -5)))
                    /\ Ge(rb, Zero)
                    /\ IsFinite(rb)

\* C16: a call of klucher1979 leaves in GHI, for every element, the larger of
\* GHI and DHI, raised to 1e-6 where that is smaller; so GHI >= DHI and
\* GHI >= 1e-6, DHI/GHI is defined and F = 1 - (DHI/GHI)^2 is in [0, 1].
C16_KlucherClamps ==
    [][call'.fn = "klucher1979" =>
          \A F \in {klucher_F(args'.DHI, args'.GHI)} :
              \A i \in Index :
                  /\ args'.GHI[i] =
                         Larger(Larger(args.GHI[i], args.DHI[i]), Dec(1, -6))
                  /\ Ge(args'.GHI[i], args'.DHI[i])
                  /\ Ge(args'.GHI[i], Dec(1, -6))
                  /\ IsFinite(Div(args'.DHI[i], args'.GHI[i]))
                  /\ Ge(F[i], Zero) /\ Le(F[i], One)]_vars

\* C16 happens: klucher1979 returned for data with a GHI it raised to DHI
\* (F = 0) and a GHI it raised to 1e-6 (F = 1).
C16_Witness ==
    /\ call.fn = "klucher1979"
    /\ \E i, j \in Index :
           /\ args.GHI[i] = args.DHI[i] /\ args.DHI[i] = Num(100)
           /\ klucher_F(args.DHI, args.GHI)[i] = Zero
           /\ args.GHI[j] = Dec(1, -6) /\ args.DHI[j] = Zero
           /\ klucher_F(args.DHI, args.GHI)[j] = One

\* C17: where reindl1990 returns, it leaves in GHI, for every element, GHI
\* raised to 1e-6 where it was smaller, so the later clamp at 0 changed
\* nothing; with HB = max(DNI*cos(zenith), 0) >= 0, F = sqrt(HB/GHI) is
\* defined and >= 0.
C17_ReindlClamps ==
    [][(call'.fn = "reindl1990" /\ call'.status = "ok") =>
          \A HB \in {reindl_HB(args'.DNI, args'.SunZen)} :
              \A F \in {reindl_F(HB, args'.GHI)} :
                  \A i \in Index :
                      /\ args'.GHI[i] = Larger(args.GHI[i], Dec(1, -6))
                      /\ Ge(args'.GHI[i], Dec(1, -6))
                      /\ HB[i] = Larger(Mul(args.DNI[i], cosd(args.SunZen[i])),
                                        Zero)
                      /\ Ge(HB[i], Zero)
                      /\ IsFinite(F[i]) /\ Ge(F[i], Zero)]_vars

\* C17 happens: reindl1990 returned for data with a GHI it raised to 1e-6,
\* where F = 0.
C17_Witness ==
    /\ call.fn = "reindl1990" /\ call.status = "ok"
    /\ \E i \in Index :
           /\ args.GHI[i] = Dec(1, -6)
           /\ reindl_F(reindl_HB(args.DNI, args.SunZen), args.GHI)[i] = Zero

\* C18: every sky-diffuse model but kingdiffuse returns values >= 0 only
\* (haydavies1980 and reindl1990: on data with 0 < HExtra and DNI <= HExtra
\* throughout, so that AI is in [0, 1]).
C18_OnlyKingNegative ==
    (/\ SkyReturned
     /\ call.fn # "kingdiffuse"
     /\ call.fn \in {"haydavies1980", "reindl1990"}
            => \A i \in Index : /\ Gt(args.HExtra[i], Zero)
                                /\ Le(args.DNI[i], args.HExtra[i]))
        => \A i \in DOMAIN SkyValue : Ge(SkyValue[i], Zero)

\* f + g*delta + h*z for the coefficients in columns c, c+1, c+2 (from 1) of
\* the row of bin k (from 0) of the table called name.
RowValue(name, k, c, delta, z) ==
    Add(Add(Coef(coeffdict[name][k + 1][c]),
            Mul(Coef(coeffdict[name][k + 1][c + 1]), delta)),
        Mul(Coef(coeffdict[name][k + 1][c + 2]), z))

\* The factors F1, F2, A, B of perez on the caller's objects a under the
\* model name given, and the locals ebin and delt they are made from.
PerezFactors(a, given) ==
    LET r == PerezOn(a, given)
        c == GetPerezCoefficients(Given(given), strictArrays)
        z == perez_z(a.SunZen)
    IN  [ebin |-> r.locals.ebin, delt |-> r.locals.delt, z |-> z,
         F1 |-> perez_F(c.F1coeffs, r.locals.ebin, r.locals.delt, z),
         F2 |-> perez_F(c.F2coeffs, r.locals.ebin, r.locals.delt, z),
         A |-> perez_A(a.SurfTilt, a.SurfAz, a.SunZen, a.SunAz),
         B |-> perez_B(a.SunZen)]

\* C19: where perez returns, for every element that has a bin F1 and F2 are
\* f1 + f2*delt + f3*z of the row of that element's bin, floored at 0; A is
\* COSTT floored at 0 and B is cos(zenith) floored at cos(85); so F1, F2 and
\* A are >= 0, B >= cos(85) > 0 and F1*A/B is finite and >= 0.
C19_FactorsFloored ==
    PerezReturned =>
        \A p \in {PerezFactors(args, call.modelt)} :
            \A C \in {COSTT(args.SurfTilt, args.SurfAz, args.SunZen,
                            args.SunAz)} :
                \A i \in DOMAIN p.ebin :
                    /\ p.F1[i] = Larger(RowValue(Given(call.modelt), p.ebin[i],
                                                 1, p.delt[i], p.z[i]), Zero)
                    /\ p.F2[i] = Larger(RowValue(Given(call.modelt), p.ebin[i],
                                                 4, p.delt[i], p.z[i]), Zero)
                    /\ p.A[i] = Larger(C[i], Zero)
                    /\ p.B[i] = Larger(cosd(args.SunZen[i]), cosd(Num(85)))
                    /\ Ge(p.F1[i], Zero) /\ Ge(p.F2[i], Zero)
                    /\ Ge(p.A[i], Zero)
                    /\ Ge(p.B[i], cosd(Num(85))) /\ Gt(p.B[i], Zero)
                    /\ IsFinite(Div(Mul(p.F1[i], p.A[i]), p.B[i]))
                    /\ Ge(Div(Mul(p.F1[i], p.A[i]), p.B[i]), Zero)

\* C19 happens: perez returned for data with an element whose F2 was floored
\* to 0 and an element with the sun on the horizon, whose B is cos(85).
C19_Witness ==
    /\ PerezReturned
    /\ \E p \in {PerezFactors(args, call.modelt)} :
           \E i, j \in DOMAIN p.ebin :
               /\ Lt(RowValue(Given(call.modelt), p.ebin[i], 4, p.delt[i],
                              p.z[i]), Zero)
               /\ p.F2[i] = Zero
               /\ args.SunZen[j] = Num(90)
               /\ p.B[j] = cosd(Num(85))

=============================================================================
